---- MODULE Spec2Model ----
(***************************************************************************)
(* Model of calculate_metrics in data_quality_calculator.py: the script    *)
(* reads its inputs from the sidebar widgets (module-level names), calls   *)
(* calculate_metrics() once and binds the returned dictionary to results.  *)
(*                                                                         *)
(* Numbers.  The program computes in IEEE doubles; the model computes the  *)
(* same expressions in exact rational arithmetic.  A rational is a record  *)
(* [sg, n, d]: sign sg in {-1, 0, 1}, numerator magnitude n and            *)
(* denominator d > 0, both naturals written as sequences of base-Base      *)
(* limbs, least significant first (TLC's integers are 32 bits wide).       *)
(* Fractions are not reduced: compare them with QEq, never with =.         *)
(* A square root is carried as its radicand: se_control, se_variation,     *)
(* pooled_se and mde are non-negative or NaN, so every comparison the code *)
(* makes with mde is decided on the squares.                               *)
(***************************************************************************)
EXTENDS Integers, Sequences, FiniteSets, TLC

\* radix of the limbs: its square fits a 32-bit integer
Base == 100 * 100

\* An operator's parameters are re-evaluated at every use, so a chain of
\* applications costs the product of the uses.  The arithmetic below binds
\* each argument once, as the element of a singleton set, before using it.

\* ---------------------------------------------------------------- naturals

RECURSIVE NatFromInt(_)
NatFromInt(i) == IF i = 0 THEN <<>> ELSE <<i % Base>> \o NatFromInt(i \div Base)

\* a without its leading zero limbs, k being Len(a)
RECURSIVE NatStripFrom(_, _)
NatStripFrom(a, k) ==
    IF k = 0 THEN <<>>
    ELSE IF a[k] # 0 THEN SubSeq(a, 1, k)
    ELSE (CHOOSE r_ \in {NatStripFrom(x_, y_) : x_ \in {a}, y_ \in {k - 1}} : TRUE)

NatStrip(a) == (CHOOSE r_ \in {NatStripFrom(x_, y_) : x_ \in {a}, y_ \in {Len(a)}} : TRUE)

RECURSIVE NatCmpFrom(_, _, _)
NatCmpFrom(a, b, i) ==
    IF i = 0 THEN 0
    ELSE IF a[i] < b[i] THEN -1
    ELSE IF a[i] > b[i] THEN 1
    ELSE (CHOOSE r_ \in {NatCmpFrom(x_, y_, z_) : x_ \in {a}, y_ \in {b}, z_ \in {i - 1}} : TRUE)

NatCmpLen(a, b) ==
    IF Len(a) < Len(b) THEN -1
    ELSE IF Len(a) > Len(b) THEN 1
    ELSE NatCmpFrom(a, b, Len(a))

NatCmp(a, b) == (CHOOSE r_ \in {NatCmpLen(x_, y_) : x_ \in {a}, y_ \in {b}} : TRUE)

NatLimb(a, i) == IF i <= Len(a) THEN a[i] ELSE 0

\* limbs i.. of a + b + carry appended to acc
RECURSIVE NatAddFrom(_, _, _, _, _)
NatAddFrom(a, b, i, carry, acc) ==
    IF i > Len(a) /\ i > Len(b)
    THEN (IF carry = 0 THEN acc ELSE Append(acc, carry))
    ELSE (CHOOSE r_ \in {NatAddFrom(x_, y_, z_, w_, v_) : x_ \in {a}, y_ \in {b}, z_ \in {i + 1}, w_ \in {(NatLimb(a, i) + NatLimb(b, i) + carry) \div Base}, v_ \in {Append(acc, (NatLimb(a, i) + NatLimb(b, i) + carry) % Base)}} : TRUE)

NatAdd(a, b) == (CHOOSE r_ \in {NatAddFrom(x_, y_, z_, w_, v_) : x_ \in {a}, y_ \in {b}, z_ \in {1}, w_ \in {0}, v_ \in {<<>>}} : TRUE)

\* limbs i.. of a - b - borrow appended to acc, for a >= b
RECURSIVE NatSubFrom(_, _, _, _, _)
NatSubFrom(a, b, i, borrow, acc) ==
    IF i > Len(a) THEN acc
    ELSE (CHOOSE r_ \in {NatSubFrom(x_, y_, z_, w_, v_) : x_ \in {a}, y_ \in {b}, z_ \in {i + 1}, w_ \in {IF a[i] - NatLimb(b, i) - borrow < 0 THEN 1 ELSE 0}, v_ \in {Append(acc, (a[i] - NatLimb(b, i) - borrow + Base) % Base)}} : TRUE)

NatSub(a, b) == NatStrip((CHOOSE r_ \in {NatSubFrom(x_, y_, z_, w_, v_) : x_ \in {a}, y_ \in {b}, z_ \in {1}, w_ \in {0}, v_ \in {<<>>}} : TRUE))

\* limbs i.. of a * m + carry appended to acc, for a limb m
RECURSIVE NatMulLimbFrom(_, _, _, _, _)
NatMulLimbFrom(a, m, i, carry, acc) ==
    IF i > Len(a) THEN (IF carry = 0 THEN acc ELSE Append(acc, carry))
    ELSE (CHOOSE r_ \in {NatMulLimbFrom(x_, y_, z_, w_, v_) : x_ \in {a}, y_ \in {m}, z_ \in {i + 1}, w_ \in {(a[i] * m + carry) \div Base}, v_ \in {Append(acc, (a[i] * m + carry) % Base)}} : TRUE)

\* a * m * Base^shift, for a limb m
NatMulLimb(a, m, shift) ==
    CHOOSE r_ \in {NatMulLimbFrom(x_, y_, 1, 0, v_) :
                      x_ \in {a}, y_ \in {m}, v_ \in {[k \in 1..shift |-> 0]}} : TRUE

\* acc + (a[i..] * b) * Base^(i-1)
RECURSIVE NatMulFrom(_, _, _, _)
NatMulFrom(a, b, i, acc) ==
    IF i > Len(a) THEN acc
    ELSE CHOOSE r_ \in {NatMulFrom(x_, y_, z_, w_) :
                           x_ \in {a}, y_ \in {b}, z_ \in {i + 1},
                           w_ \in {IF a[i] = 0 THEN acc
                                   ELSE NatAdd(acc, NatMulLimb(b, a[i], i - 1))}} : TRUE

NatMulLen(a, b) ==
    IF a = <<>> \/ b = <<>> THEN <<>>
    ELSE IF Len(a) <= Len(b) THEN NatMulFrom(a, b, 1, <<>>)
    ELSE NatMulFrom(b, a, 1, <<>>)

NatMul(a, b) == (CHOOSE r_ \in {NatMulLen(x_, y_) : x_ \in {a}, y_ \in {b}} : TRUE)

\* --------------------------------------------------------------- rationals

One == <<1>>

Q(i, j) ==
    [sg |-> IF i = 0 THEN 0 ELSE IF i < 0 THEN -1 ELSE 1,
     n  |-> NatFromInt(IF i < 0 THEN -i ELSE i),
     d  |-> NatFromInt(j)]

QInt(i) == Q(i, 1)

QSign(x) == x.sg

QNegOf(x) == [x EXCEPT !.sg = -x.sg]

QNeg(x) == (CHOOSE r_ \in {QNegOf(x_) : x_ \in {x}} : TRUE)

QAbsOf(x) == [x EXCEPT !.sg = IF x.sg = 0 THEN 0 ELSE 1]

QAbs(x) == (CHOOSE r_ \in {QAbsOf(x_) : x_ \in {x}} : TRUE)

\* cancels the factors Base common to numerator and denominator
RECURSIVE QTrimOf(_)
QTrimOf(x) ==
    IF x.sg # 0 /\ x.n[1] = 0 /\ x.d[1] = 0
    THEN (CHOOSE r_ \in {QTrimOf(x_) : x_ \in {[x EXCEPT !.n = Tail(x.n), !.d = Tail(x.d)]}} : TRUE)
    ELSE x

QTrim(x) == (CHOOSE r_ \in {QTrimOf(x_) : x_ \in {x}} : TRUE)

QMulOf(x, y) ==
    IF x.sg = 0 \/ y.sg = 0 THEN [sg |-> 0, n |-> <<>>, d |-> One]
    ELSE QTrim([sg |-> x.sg * y.sg, n |-> NatMul(x.n, y.n), d |-> NatMul(x.d, y.d)])

QMul(x, y) == (CHOOSE r_ \in {QMulOf(x_, y_) : x_ \in {x}, y_ \in {y}} : TRUE)

QDivOf(x, y) ==
    IF x.sg = 0 THEN [sg |-> 0, n |-> <<>>, d |-> One]
    ELSE QTrim([sg |-> x.sg * y.sg, n |-> NatMul(x.n, y.d), d |-> NatMul(x.d, y.n)])

\* x / y for y # 0
QDiv(x, y) == (CHOOSE r_ \in {QDivOf(x_, y_) : x_ \in {x}, y_ \in {y}} : TRUE)

\* the sum of x and y from their numerators a, b over the denominator d
QAddOver(x, y, a, b, d) ==
    IF x.sg = y.sg THEN QTrim([sg |-> x.sg, n |-> NatAdd(a, b), d |-> d])
    ELSE IF NatCmp(a, b) = 0 THEN [sg |-> 0, n |-> <<>>, d |-> One]
    ELSE IF NatCmp(a, b) > 0 THEN QTrim([sg |-> x.sg, n |-> NatSub(a, b), d |-> d])
    ELSE QTrim([sg |-> y.sg, n |-> NatSub(b, a), d |-> d])

QAddOf(x, y) ==
    IF x.sg = 0 THEN y
    ELSE IF y.sg = 0 THEN x
    ELSE (CHOOSE r_ \in {QAddOver(x_, y_, z_, w_, v_) : x_ \in {x}, y_ \in {y}, z_ \in {NatMul(x.n, y.d)}, w_ \in {NatMul(y.n, x.d)}, v_ \in {NatMul(x.d, y.d)}} : TRUE)

QAdd(x, y) == (CHOOSE r_ \in {QAddOf(x_, y_) : x_ \in {x}, y_ \in {y}} : TRUE)

QSub(x, y) == QAdd(x, QNeg(y))

QCmpOf(x, y) ==
    IF x.sg # y.sg THEN (IF x.sg < y.sg THEN -1 ELSE 1)
    ELSE IF x.sg = 0 THEN 0
    ELSE x.sg * NatCmp(NatMul(x.n, y.d), NatMul(y.n, x.d))

\* -1, 0, 1 as x < y, x = y, x > y
QCmp(x, y) == (CHOOSE r_ \in {QCmpOf(x_, y_) : x_ \in {x}, y_ \in {y}} : TRUE)

QLess(x, y) == QCmp(x, y) < 0

QEq(x, y) == QCmp(x, y) = 0

QLeq(x, y) == QCmp(x, y) <= 0

QZero == QInt(0)

QSquare(x) == QMul(x, x)

\* A widget value with one decimal place, kept in tenths: 97 is 9.7
Tenths(t) == Q(t, 10)

\* ------------------------------------------------------------------ floats
\* The result of np.sqrt: NaN for a negative radicand, otherwise the
\* non-negative root of sq.  NaN propagates through every operation and
\* makes every comparison false.

NaN == [nan |-> TRUE, sq |-> QZero]

Root(x) == IF QSign(x) < 0 THEN NaN ELSE [nan |-> FALSE, sq |-> x]

\* abs(x) < r and abs(x) > r for a root r
AbsLess(x, r) == ~r.nan /\ QLess(QSquare(x), r.sq)

AbsGreater(x, r) == ~r.nan /\ QLess(r.sq, QSquare(x))

\* ------------------------------------------------------- calculate_metrics

\* sample_size / 2 * (1 - user_id_error / 100) * (1 - event_loss / 100)
\* attrition subtracted instead of multiplied
effective_sample_additive(sample_size, user_id_error, event_loss) ==
    QMul(QDiv(sample_size, QInt(2)),
         QSub(QInt(1), QDiv(QAdd(user_id_error, event_loss), QInt(100))))

effective_sample(sample_size, user_id_error, event_loss) ==
    QMul(QMul(QDiv(sample_size, QInt(2)),
              QSub(QInt(1), QDiv(user_id_error, QInt(100)))),
         QSub(QInt(1), QDiv(event_loss, QInt(100))))

total_effective_sample(control_effective_sample, variation_effective_sample) ==
    QAdd(control_effective_sample, variation_effective_sample)

control_observed_conversion(baseline_conversion, control_partial_data) ==
    QMul(baseline_conversion, QSub(QInt(1), QDiv(control_partial_data, QInt(100))))

variation_expected_conversion(baseline_conversion, expected_lift) ==
    QMul(baseline_conversion, QAdd(QInt(1), QDiv(expected_lift, QInt(100))))

variation_observed_conversion(variation_expected, variation_partial_data) ==
    QMul(variation_expected, QSub(QInt(1), QDiv(variation_partial_data, QInt(100))))

\* ((variation / control) - 1) * 100, for control # 0
lift_ratio(variation_rate, control_rate) ==
    QMul(QSub(QDiv(variation_rate, control_rate), QInt(1)), QInt(100))

\* the sum of the three rates in place of their mean
quality_score_sum(event_loss, user_id_error, partial_data) ==
    QSub(QInt(100), QAdd(QAdd(event_loss, user_id_error), partial_data))

quality_score(event_loss, user_id_error, partial_data) ==
    QSub(QInt(100), QDiv(QAdd(QAdd(event_loss, user_id_error), partial_data), QInt(3)))

\* without abs()
quality_difference_signed(control_quality_score, variation_quality_score) ==
    QSub(control_quality_score, variation_quality_score)

quality_difference(control_quality_score, variation_quality_score) ==
    QAbs(QSub(control_quality_score, variation_quality_score))

\* stats.norm.ppf(1 - alpha / 2) with alpha = (100 - confidence) / 100,
\* to six decimal places
z_alpha(confidence) ==
    CASE confidence = 80 -> Q(1281552, 1000000)
      [] confidence = 90 -> Q(1644854, 1000000)
      [] confidence = 95 -> Q(1959964, 1000000)
      [] confidence = 99 -> Q(2575829, 1000000)

\* np.sqrt((rate * (100 - rate)) / sample), for sample # 0
standard_error(rate, sample) ==
    Root(QDiv(QMul(rate, QSub(QInt(100), rate)), sample))

\* np.sqrt(se_control**2 + se_variation**2)
pooled_se(se_control, se_variation) ==
    IF se_control.nan \/ se_variation.nan THEN NaN
    ELSE Root(QAdd(se_control.sq, se_variation.sq))

expected_effect(expected_lift, baseline_conversion) ==
    QMul(QDiv(expected_lift, QInt(100)), baseline_conversion)

\* z_alpha * pooled_se * 2
mde(z, pooled) ==
    IF pooled.nan THEN NaN
    ELSE [nan |-> FALSE, sq |-> QMul(QMul(QSquare(z), pooled.sq), QInt(4))]

\* stats.norm.ppf(0.8): norm.cdf(x) >= 0.8 exactly when x >= Z80
Z80 == Q(841621, 1000000)

\* expected_effect / pooled_se - z_alpha >= t, for z_alpha + t > 0, pooled_se > 0
ZAtLeast(effect, pooled, z, t) ==
    /\ QSign(effect) > 0
    /\ QLeq(QMul(QSquare(QAdd(z, t)), pooled.sq), QSquare(effect))

\* stats.norm.cdf(expected_effect / pooled_se - z_alpha) * 100, as the class
\* the page reads it in: NaN, or its floor among 0, 50 and 80.  A zero
\* pooled_se divides to +inf, -inf or NaN (numpy division), whose cdf is
\* 1, 0 or NaN.
stat_power(effect, pooled, z) ==
    IF pooled.nan THEN [nan |-> TRUE, floor |-> 0]
    ELSE IF QSign(pooled.sq) = 0
    THEN [nan |-> QSign(effect) = 0, floor |-> IF QSign(effect) > 0 THEN 80 ELSE 0]
    ELSE [nan |-> FALSE,
          floor |-> IF ZAtLeast(effect, pooled, z, Z80) THEN 80
                    ELSE IF ZAtLeast(effect, pooled, z, QZero) THEN 50
                    ELSE 0]

total_error(event_loss, user_id_error, partial_data) ==
    QAdd(QAdd(event_loss, user_id_error), partial_data)

\* control minus variation
data_quality_impact_reversed(variation_total, control_total) ==
    QSub(control_total, variation_total)

data_quality_impact(variation_total, control_total) ==
    QSub(variation_total, control_total)

\* without abs()
false_positive_risk_signed(impact) ==
    IF QSign(impact) < 0 THEN QDiv(impact, QInt(5)) ELSE QZero

false_positive_risk(impact) ==
    IF QSign(impact) < 0 THEN QAbs(QDiv(impact, QInt(5))) ELSE QZero

false_negative_risk(impact) ==
    IF QSign(impact) > 0 THEN QDiv(impact, QInt(5)) ELSE QZero

FalseNegative == "Likely false negative (true effect is being diluted by data quality issues)"
FalsePositive == "Potential false positive (observed lift is artificially inflated)"
Inconclusive == "Inconclusive (effect size is below detection threshold)"
LikelyValid == "Likely valid result (observed lift matches expected)"
Investigate == "Requires investigation (unexpected results)"

HalfOf(r) == IF r.nan THEN NaN ELSE [nan |-> FALSE, sq |-> QDiv(r.sq, QInt(4))]

\* the chain with the detection threshold tested before the quality rules
conclusion_threshold_first(reported_lift, expected_lift, impact, threshold) ==
    IF AbsLess(reported_lift, threshold)
    THEN [conclusion |-> Inconclusive, conclusion_class |-> "info"]
    ELSE IF /\ QSign(reported_lift) > 0
            /\ QLess(reported_lift, expected_lift)
            /\ QLess(QInt(5), impact)
    THEN [conclusion |-> FalseNegative, conclusion_class |-> "warning"]
    ELSE IF QLess(expected_lift, reported_lift) /\ QLess(impact, QInt(-5))
    THEN [conclusion |-> FalsePositive, conclusion_class |-> "danger"]
    ELSE IF AbsLess(QSub(reported_lift, expected_lift), HalfOf(threshold))
    THEN [conclusion |-> LikelyValid, conclusion_class |-> "success"]
    ELSE [conclusion |-> Investigate, conclusion_class |-> "warning"]

\* the if/elif chain deciding the conclusion
conclusion(reported_lift, expected_lift, impact, threshold) ==
    IF /\ QSign(reported_lift) > 0
       /\ QLess(reported_lift, expected_lift)
       /\ QLess(QInt(5), impact)
    THEN [conclusion |-> FalseNegative, conclusion_class |-> "warning"]
    ELSE IF QLess(expected_lift, reported_lift) /\ QLess(impact, QInt(-5))
    THEN [conclusion |-> FalsePositive, conclusion_class |-> "danger"]
    ELSE IF AbsLess(reported_lift, threshold)
    THEN [conclusion |-> Inconclusive, conclusion_class |-> "info"]
    ELSE IF AbsLess(QSub(reported_lift, expected_lift), HalfOf(threshold))
    THEN [conclusion |-> LikelyValid, conclusion_class |-> "success"]
    ELSE [conclusion |-> Investigate, conclusion_class |-> "warning"]

\* list(range(0, 21, 2))
error_rates == [i \in 1..11 |-> 2 * (i - 1)]

\* partial_data counted in full at every error level
error_impact_unscaled(event_loss, user_id_error, partial_data, error) ==
    QAdd(QAdd(QDiv(event_loss, QInt(100)), QDiv(user_id_error, QInt(100))),
         QDiv(partial_data, QInt(100)))

\* event_loss / 100 + user_id_error / 100 + (error / 100) * (partial_data / 100)
error_impact(event_loss, user_id_error, partial_data, error) ==
    QAdd(QAdd(QDiv(event_loss, QInt(100)), QDiv(user_id_error, QInt(100))),
         QMul(QDiv(QInt(error), QInt(100)), QDiv(partial_data, QInt(100))))

\* baseline_conversion * (1 - control_error_impact)
control_observed_rate(baseline_conversion, control_error_impact) ==
    QMul(baseline_conversion, QSub(QInt(1), control_error_impact))

\* variation_true_rate * (1 - variation_error_impact)
variation_observed_rate(baseline_conversion, expected_lift, variation_error_impact) ==
    QMul(QMul(baseline_conversion, QAdd(QInt(1), QDiv(expected_lift, QInt(100)))),
         QSub(QInt(1), variation_error_impact))

\* the loop's divisor with event_loss and user_id_error left out of the
\* error impact
sweep_divisor_partial_only(in, error) ==
    control_observed_rate(Tenths(in.baseline_conversion),
        QMul(QDiv(QInt(error), QInt(100)), QDiv(Tenths(in.control_partial_data), QInt(100))))

\* control_observed_rate of the loop over error_rates at this error level:
\* the divisor of its observed lift
sweep_divisor(in, error) ==
    control_observed_rate(Tenths(in.baseline_conversion),
        error_impact(Tenths(in.control_event_loss), Tenths(in.control_user_id_error),
                     Tenths(in.control_partial_data), error))

\* the loop's observed lift with segmentation_errors added to the control
\* group's error impact
observed_lift_segmented(in, error) ==
    lift_ratio(
        variation_observed_rate(Tenths(in.baseline_conversion), Tenths(in.expected_lift),
            error_impact(Tenths(in.variation_event_loss), Tenths(in.variation_user_id_error),
                         Tenths(in.variation_partial_data), error)),
        QMul(sweep_divisor(in, error),
             QSub(QInt(1), QDiv(Tenths(in.segmentation_errors), QInt(100)))))

\* observed_lift of the loop over error_rates at this error level
observed_lift(in, error) ==
    lift_ratio(
        variation_observed_rate(Tenths(in.baseline_conversion), Tenths(in.expected_lift),
            error_impact(Tenths(in.variation_event_loss), Tenths(in.variation_user_id_error),
                         Tenths(in.variation_partial_data), error)),
        sweep_divisor(in, error))

\* abs(observed_lift) >= mde, read as "not below"
significant_at_least(lift, threshold) == ~AbsLess(lift, threshold)

\* abs(observed_lift) > mde
significant(lift, threshold) == AbsGreater(lift, threshold)

chart_row(error, true_lift, lift, threshold) ==
    [error_rate    |-> error,
     true_lift     |-> true_lift,
     observed_lift |-> lift,
     significant   |-> significant(lift, threshold)]

\* the rows of the chart_data frame
chart_data(in, threshold) ==
    [i \in 1..Len(error_rates) |->
        CHOOSE r_ \in {chart_row(error_rates[i], Tenths(in.expected_lift), x_, threshold) :
                          x_ \in {observed_lift(in, error_rates[i])}} : TRUE]

Raised(line) == [status |-> "ZeroDivisionError", line |-> line]

\* The locals of calculate_metrics that divide by no computed value.
sample_locals(in) ==
    [control_effective_sample |->
         effective_sample(QInt(in.sample_size), Tenths(in.control_user_id_error),
                          Tenths(in.control_event_loss)),
     variation_effective_sample |->
         effective_sample(QInt(in.sample_size), Tenths(in.variation_user_id_error),
                          Tenths(in.variation_event_loss)),
     control_observed_conversion |->
         control_observed_conversion(Tenths(in.baseline_conversion),
                                     Tenths(in.control_partial_data)),
     variation_observed_conversion |->
         variation_observed_conversion(
             variation_expected_conversion(Tenths(in.baseline_conversion),
                                           Tenths(in.expected_lift)),
             Tenths(in.variation_partial_data)),
     control_quality_score |->
         quality_score(Tenths(in.control_event_loss), Tenths(in.control_user_id_error),
                       Tenths(in.control_partial_data)),
     variation_quality_score |->
         quality_score(Tenths(in.variation_event_loss), Tenths(in.variation_user_id_error),
                       Tenths(in.variation_partial_data)),
     z_alpha |-> z_alpha(in.confidence),
     expected_effect |-> expected_effect(Tenths(in.expected_lift),
                                         Tenths(in.baseline_conversion)),
     data_quality_impact |->
         data_quality_impact(
             total_error(Tenths(in.variation_event_loss), Tenths(in.variation_user_id_error),
                         Tenths(in.variation_partial_data)),
             total_error(Tenths(in.control_event_loss), Tenths(in.control_user_id_error),
                         Tenths(in.control_partial_data)))]

\* The locals that divide: reported_lift and the pooled standard error.
ratio_locals(s) ==
    [reported_lift |-> lift_ratio(s.variation_observed_conversion,
                                  s.control_observed_conversion),
     pooled_se |->
         pooled_se(standard_error(s.control_observed_conversion,
                                  s.control_effective_sample),
                   standard_error(s.variation_observed_conversion,
                                  s.variation_effective_sample))]

\* the dictionary calculate_metrics returns
returned(in, s, r, threshold, verdict) ==
    [status |-> "returned",
     effective_sample_size |->
         total_effective_sample(s.control_effective_sample, s.variation_effective_sample),
     control_observed_conversion   |-> s.control_observed_conversion,
     variation_observed_conversion |-> s.variation_observed_conversion,
     actual_lift         |-> r.reported_lift,
     bias_risk_score     |-> quality_difference(s.control_quality_score,
                                                s.variation_quality_score),
     stat_power          |-> stat_power(s.expected_effect, r.pooled_se, s.z_alpha),
     false_positive_risk |-> false_positive_risk(s.data_quality_impact),
     false_negative_risk |-> false_negative_risk(s.data_quality_impact),
     detection_threshold |-> threshold,
     conclusion          |-> verdict.conclusion,
     conclusion_class    |-> verdict.conclusion_class,
     chart_data          |-> chart_data(in, threshold),
     control_quality_score   |-> s.control_quality_score,
     variation_quality_score |-> s.variation_quality_score]

\* from the standard errors on: mde, the conclusion, the chart
decide(in, s, r) ==
    CHOOSE r_ \in {returned(in, s, r, x_,
                            conclusion(r.reported_lift, Tenths(in.expected_lift),
                                       s.data_quality_impact, x_)) :
                      x_ \in {mde(s.z_alpha, r.pooled_se)}} : TRUE

\* The line of the first float division whose divisor is 0, which raises
\* ZeroDivisionError there; 0 when there is none.  (Line 164 divides by
\* pooled_se, a numpy float: a zero there yields inf or NaN, no exception.)
zero_division_line(in, s) ==
    IF QSign(s.control_observed_conversion) = 0 THEN 146
    ELSE IF QSign(s.control_effective_sample) = 0 THEN 158
    ELSE IF QSign(s.variation_effective_sample) = 0 THEN 159
    ELSE IF \E i \in 1..Len(error_rates) : QSign(sweep_divisor(in, error_rates[i])) = 0
    THEN 208
    ELSE 0

raises(in) ==
    CHOOSE r_ \in {zero_division_line(in, x_) : x_ \in {sample_locals(in)}} : TRUE

metrics(in, s) ==
    IF zero_division_line(in, s) # 0 THEN Raised(zero_division_line(in, s))
    ELSE CHOOSE r_ \in {decide(in, s, x_) : x_ \in {ratio_locals(s)}} : TRUE

\* calculate_metrics() on the module-level inputs in: the returned
\* dictionary, or the ZeroDivisionError it raises
calculate_metrics(in) ==
    CHOOSE r_ \in {metrics(in, x_) : x_ \in {sample_locals(in)}} : TRUE

\* ------------------------------------------------------------ the script

VARIABLES inputs, pc, results

vars == <<inputs, pc, results>>

\* The sidebar widgets' defaults (value=...), percentages in tenths.
Defaults ==
    [sample_size |-> 10000, baseline_conversion |-> 100, expected_lift |-> 50,
     confidence |-> 95,
     control_event_loss |-> 20, control_user_id_error |-> 10,
     control_partial_data |-> 30,
     variation_event_loss |-> 50, variation_user_id_error |-> 30,
     variation_partial_data |-> 70,
     segmentation_errors |-> 40, timeframe_bias |-> 20]

\* Values the sidebar widgets can hold, each inside the widget's min_value
\* and max_value: sample sizes 100, 10000, ..., 100^MaxSampleExp
MaxSampleExp == 2

SampleSizes == {100 ^ k : k \in 1..MaxSampleExp}

BaselineConversions == {100, 600}

ExpectedLifts == {0, 50, 1000}

Confidences == {90, 95, 99}

Profile(event_loss, user_id_error, partial_data) ==
    [event_loss |-> event_loss, user_id_error |-> user_id_error,
     partial_data |-> partial_data]

\* the default, a clean group, and event loss and id errors both at the
\* widgets' maximum
ControlProfiles ==
    {Profile(20, 10, 30), Profile(0, 0, 0), Profile(500, 500, 30)}

\* the default, a clean group, the control group's default, every rate at
\* the widgets' maximum
VariationProfiles ==
    {Profile(50, 30, 70), Profile(0, 0, 0), Profile(20, 10, 30), Profile(500, 500, 500)}

\* segmentation_errors, timeframe_bias
AdditionalFactors == {<<40, 20>>, <<0, 500>>}

InputsOf(s, b, l, c, cp, vp, af) ==
    [sample_size |-> s, baseline_conversion |-> b, expected_lift |-> l,
     confidence |-> c,
     control_event_loss |-> cp.event_loss,
     control_user_id_error |-> cp.user_id_error,
     control_partial_data |-> cp.partial_data,
     variation_event_loss |-> vp.event_loss,
     variation_user_id_error |-> vp.user_id_error,
     variation_partial_data |-> vp.partial_data,
     segmentation_errors |-> af[1], timeframe_bias |-> af[2]]

WidgetInputs ==
    {InputsOf(s, b, l, c, cp, vp, af) :
        s \in SampleSizes, b \in BaselineConversions, l \in ExpectedLifts,
        c \in Confidences, cp \in ControlProfiles, vp \in VariationProfiles,
        af \in AdditionalFactors}

NoResults == [status |-> "none"]

\* one run of the script: the widgets hold their values, nothing is computed
Init == inputs \in WidgetInputs /\ pc = "inputs" /\ results = NoResults

\* results = calculate_metrics() returns and the page is rendered
Return ==
    /\ pc = "inputs"
    /\ raises(inputs) = 0
    /\ results' = calculate_metrics(inputs)
    /\ pc' = "rendered"
    /\ UNCHANGED inputs

\* calculate_metrics() raises and the script run stops
Raise ==
    /\ pc = "inputs"
    /\ raises(inputs) # 0
    /\ results' = calculate_metrics(inputs)
    /\ pc' = "failed"
    /\ UNCHANGED inputs

Next == Return \/ Raise

Spec == Init /\ [][Next]_vars

\* calculate_metrics called with module-level names the widgets would not
\* produce: the defaults with up to two fields outside the ranges declared
\* for them.
OutOfRangeValues ==
    [sample_size |-> {0}, baseline_conversion |-> {0, 1000}, expected_lift |-> {-1100},
     confidence |-> {80},
     control_event_loss |-> {-10, 1000}, control_user_id_error |-> {-10, 1000},
     control_partial_data |-> {-10, 1000},
     variation_event_loss |-> {-10, 1000}, variation_user_id_error |-> {-10, 1000},
     variation_partial_data |-> {-10, 1000},
     segmentation_errors |-> {}, timeframe_bias |-> {}]

DirectInputs ==
    UNION {UNION {{[[Defaults EXCEPT ![f] = x] EXCEPT ![g] = y] :
                      x \in OutOfRangeValues[f],
                      y \in OutOfRangeValues[g] \cup {Defaults[g]}} :
                  g \in DOMAIN Defaults} :
           f \in DOMAIN Defaults}

InitDirect == inputs \in DirectInputs /\ pc = "inputs" /\ results = NoResults

SpecDirect == InitDirect /\ [][Next]_vars

\* ------------------------------------------------------------ properties

Rendered == pc = "rendered"

\* quality_delta in tenths of a percentage point, from the inputs
QualityDeltaTenths(in) ==
    (in.variation_event_loss + in.variation_user_id_error + in.variation_partial_data)
    - (in.control_event_loss + in.control_user_id_error + in.control_partial_data)

RuleA ==
    /\ QSign(results.actual_lift) > 0
    /\ QLess(results.actual_lift, Tenths(inputs.expected_lift))
    /\ QualityDeltaTenths(inputs) > 50

RuleB ==
    /\ QLess(Tenths(inputs.expected_lift), results.actual_lift)
    /\ QualityDeltaTenths(inputs) < -50

RuleC == AbsLess(results.actual_lift, results.detection_threshold)

\* |reported_lift - expected_lift| < detection_threshold / 2, on squares
RuleD ==
    /\ ~results.detection_threshold.nan
    /\ QLess(QMul(QInt(4), QSquare(QSub(results.actual_lift, Tenths(inputs.expected_lift)))),
             results.detection_threshold.sq)

Verdict(label, class) ==
    results.conclusion = label /\ results.conclusion_class = class

\* C1: every returned result carries exactly one of the five conclusion
\* labels with its severity class, chosen first-match-wins over rules (a),
\* (b), (c), (d), (e) in that order: a rule decides only when every earlier
\* rule fails, even when a later rule's condition holds as well.
C1_FirstMatchWins ==
    Rendered =>
        /\ results.conclusion \in
               {FalseNegative, FalsePositive, Inconclusive, LikelyValid, Investigate}
        /\ RuleA => Verdict(FalseNegative, "warning")
        /\ (~RuleA /\ RuleB) => Verdict(FalsePositive, "danger")
        /\ (~RuleA /\ ~RuleB /\ RuleC) => Verdict(Inconclusive, "info")
        /\ (~RuleA /\ ~RuleB /\ ~RuleC /\ RuleD) => Verdict(LikelyValid, "success")
        /\ (~RuleA /\ ~RuleB /\ ~RuleC /\ ~RuleD) => Verdict(Investigate, "warning")

\* rules (a) and (c) both hold and (a), the earlier one, decided
C1_Witness ==
    Rendered /\ RuleA /\ RuleC /\ Verdict(FalseNegative, "warning")

\* a field outside the range declared for it
OutOfRange(in) ==
    \/ in.sample_size <= 0
    \/ in.baseline_conversion <= 0 \/ in.baseline_conversion >= 1000
    \/ in.expected_lift < -1000
    \/ in.confidence \notin {90, 95, 99}
    \/ \E f \in {"control_event_loss", "control_user_id_error", "control_partial_data",
                 "variation_event_loss", "variation_user_id_error",
                 "variation_partial_data"} : in[f] < 0 \/ in[f] >= 1000

C3_NoUndefinedReturned ==
    Rendered => ~results.detection_threshold.nan /\ ~results.stat_power.nan

AtDefaults ==
    \A f \in DOMAIN Defaults \ {"segmentation_errors", "timeframe_bias"} :
        inputs[f] = Defaults[f]

\* |x - y| <= tolerance
Within(x, y, tolerance) == QLeq(QAbs(QSub(x, y)), tolerance)

\* C4 as stated: at the defaults effective_sample_size is within 9611 +/- 5,
\* control_observed_conversion 9.70, variation_observed_conversion 9.7545
\* to four places, actual_lift 0.56 to two places, bias_risk_score 4.0.
C4_AsStated ==
    (Rendered /\ AtDefaults) =>
        /\ Within(results.effective_sample_size, QInt(9611), QInt(5))
        /\ QEq(results.control_observed_conversion, Q(970, 100))
        /\ Within(results.variation_observed_conversion, Q(97545, 10000), Q(5, 100000))
        /\ Within(results.actual_lift, Q(56, 100), Q(5, 1000))
        /\ QEq(results.bias_risk_score, QInt(4))

\* C4: at the defaults effective_sample_size is 9458.5,
\* control_observed_conversion 9.70, variation_observed_conversion 9.765,
\* actual_lift 65/97 (0.67 to two places) and bias_risk_score 3.0.
C4_DefaultValues ==
    (Rendered /\ AtDefaults) =>
        /\ QEq(results.effective_sample_size, Q(94585, 10))
        /\ QEq(results.control_observed_conversion, Q(970, 100))
        /\ QEq(results.variation_observed_conversion, Q(9765, 1000))
        /\ QEq(results.actual_lift, Q(65, 97))
        /\ Within(results.actual_lift, Q(67, 100), Q(5, 1000))
        /\ QEq(results.bias_risk_score, QInt(3))

C4_Witness == Rendered /\ AtDefaults /\ results.status = "returned"

\* C5 as stated: at the defaults, |actual_lift| < detection_threshold makes
\* the conclusion the Inconclusive label with class info.
C5_AsStated ==
    (Rendered /\ AtDefaults /\ RuleC) => Verdict(Inconclusive, "info")

\* C5: at the defaults |actual_lift| < detection_threshold holds and the
\* conclusion is the Likely false negative label with class warning, rule
\* (a) being tested before the threshold.
C5_DefaultConclusion ==
    (Rendered /\ AtDefaults) => RuleC /\ RuleA /\ Verdict(FalseNegative, "warning")

C5_Witness == Rendered /\ AtDefaults /\ RuleC /\ results.conclusion # Inconclusive

\* the ratio of step 3 with each group's partial_data replaced by the sum of
\* that group's event_loss and user_id_error
SweepStartLift(in) ==
    lift_ratio(
        variation_observed_conversion(
            variation_expected_conversion(Tenths(in.baseline_conversion),
                                          Tenths(in.expected_lift)),
            Tenths(in.variation_event_loss + in.variation_user_id_error)),
        control_observed_conversion(
            Tenths(in.baseline_conversion),
            Tenths(in.control_event_loss + in.control_user_id_error)))

\* C6 as stated: the curve point at error_rate 0 has observed_lift equal to
\* actual_lift.
C6_AsStated ==
    Rendered => QEq(results.chart_data[1].observed_lift, results.actual_lift)

\* C6: the curve point at error_rate 0 has observed_lift equal to the
\* step-3 ratio evaluated with each group's partial_data replaced by that
\* group's event_loss + id_error; the configured partial_data rates do not
\* enter it.
C6_SweepStart ==
    Rendered => QEq(results.chart_data[1].observed_lift, SweepStartLift(inputs))

\* a result whose first curve point differs from its actual_lift
C6_Witness ==
    /\ Rendered
    /\ results.chart_data[1].error_rate = 0
    /\ ~QEq(results.chart_data[1].observed_lift, results.actual_lift)

\* (1 - id_error/100) * (1 - event_loss/100) summed over both groups, in
\* millionths
AttritionMillionths(in) ==
    (1000 - in.control_user_id_error) * (1000 - in.control_event_loss)
    + (1000 - in.variation_user_id_error) * (1000 - in.variation_event_loss)

NoAttrition(in) ==
    /\ in.control_user_id_error = 0 /\ in.control_event_loss = 0
    /\ in.variation_user_id_error = 0 /\ in.variation_event_loss = 0

\* C7: effective_sample_size is the sum over both groups of
\* sample_size/2 * (1 - id_error/100) * (1 - event_loss/100); it is above 0
\* and at most sample_size, and equals sample_size exactly when the four
\* rates are all 0.
C7_EffectiveSampleBounds ==
    Rendered =>
        /\ QEq(results.effective_sample_size,
               QMul(QInt(inputs.sample_size), Q(AttritionMillionths(inputs), 2000000)))
        /\ QSign(results.effective_sample_size) > 0
        /\ QLeq(results.effective_sample_size, QInt(inputs.sample_size))
        /\ QEq(results.effective_sample_size, QInt(inputs.sample_size))
               <=> NoAttrition(inputs)

C7_Witness ==
    /\ Rendered
    /\ NoAttrition(inputs)
    /\ QEq(results.effective_sample_size, QInt(inputs.sample_size))

\* C8: a result equals the result of the call on inputs that differ only in
\* segmentation_errors and timeframe_bias, field by field.
C8_AdditionalFactorsInert ==
    \A af \in AdditionalFactors \ {<<inputs.segmentation_errors, inputs.timeframe_bias>>} :
        Rendered =>
            results = calculate_metrics([inputs EXCEPT !.segmentation_errors = af[1],
                                                       !.timeframe_bias = af[2]])

\* a result computed with both additional factors away from their defaults
C8_Witness ==
    /\ Rendered
    /\ inputs.segmentation_errors # Defaults.segmentation_errors
    /\ inputs.timeframe_bias # Defaults.timeframe_bias
    /\ Len(results.chart_data) = 11

IdenticalProfiles(in) ==
    /\ in.control_event_loss = in.variation_event_loss
    /\ in.control_user_id_error = in.variation_user_id_error
    /\ in.control_partial_data = in.variation_partial_data

\* C9: false_positive_risk is |quality_delta|/5 when quality_delta < 0 and
\* 0 otherwise, false_negative_risk is quality_delta/5 when quality_delta > 0
\* and 0 otherwise; both are >= 0, never both nonzero, and with identical
\* quality profiles both risks and bias_risk_score are 0.
C9_RiskFormulas ==
    Rendered =>
        LET delta == QualityDeltaTenths(inputs) IN
        /\ QEq(results.false_positive_risk,
               IF delta < 0 THEN Q(-delta, 50) ELSE QZero)
        /\ QEq(results.false_negative_risk,
               IF delta > 0 THEN Q(delta, 50) ELSE QZero)
        /\ QSign(results.false_positive_risk) >= 0
        /\ QSign(results.false_negative_risk) >= 0
        /\ QSign(results.false_positive_risk) = 0 \/ QSign(results.false_negative_risk) = 0
        /\ IdenticalProfiles(inputs) =>
               /\ QSign(results.false_positive_risk) = 0
               /\ QSign(results.false_negative_risk) = 0
               /\ QSign(results.bias_risk_score) = 0

\* identical profiles with nonzero rates, and no risk reported
C9_Witness ==
    /\ Rendered
    /\ IdenticalProfiles(inputs)
    /\ inputs.control_partial_data > 0
    /\ QSign(results.bias_risk_score) = 0

\* C10: the curve has 11 points with error_rate 0, 2, ..., 20 in order,
\* each with true_lift equal to expected_lift and significant exactly when
\* |observed_lift| is strictly above the result's detection_threshold.
C10_CurvePoints ==
    Rendered =>
        /\ Len(results.chart_data) = 11
        /\ \A i \in 1..11 :
               /\ results.chart_data[i].error_rate = 2 * (i - 1)
               /\ QEq(results.chart_data[i].true_lift, Tenths(inputs.expected_lift))
               /\ results.chart_data[i].significant
                      <=> AbsGreater(results.chart_data[i].observed_lift,
                                     results.detection_threshold)

\* a curve with a significant point and one that is not
C10_Witness ==
    /\ Rendered
    /\ \E i \in 1..11 : results.chart_data[i].significant
    /\ \E i \in 1..11 : ~results.chart_data[i].significant

\* 100 minus the mean of three rates given in tenths
MeanScore(event_loss, user_id_error, partial_data) ==
    Q(3000 - (event_loss + user_id_error + partial_data), 30)

\* C11: control_quality_score and variation_quality_score are each 100
\* minus the mean of the group's three error percentages and lie in
\* [0, 100]; bias_risk_score is >= 0 and is 0 exactly when the two scores
\* are equal.
C11_QualityScores ==
    Rendered =>
        /\ QEq(results.control_quality_score,
               MeanScore(inputs.control_event_loss, inputs.control_user_id_error,
                         inputs.control_partial_data))
        /\ QEq(results.variation_quality_score,
               MeanScore(inputs.variation_event_loss, inputs.variation_user_id_error,
                         inputs.variation_partial_data))
        /\ \A score \in {results.control_quality_score, results.variation_quality_score} :
               QSign(score) >= 0 /\ QLeq(score, QInt(100))
        /\ QSign(results.bias_risk_score) >= 0
        /\ QSign(results.bias_risk_score) = 0
               <=> QEq(results.control_quality_score, results.variation_quality_score)

\* the variation group scores above the control group, and the bias is
\* reported as positive
C11_Witness ==
    /\ Rendered
    /\ QLess(results.control_quality_score, results.variation_quality_score)
    /\ QSign(results.bias_risk_score) > 0

\* baseline_conversion > 0 and the six error percentages inside the ranges
\* accepted for them
Guarded(in) ==
    /\ in.baseline_conversion > 0
    /\ \A f \in {"control_event_loss", "control_user_id_error", "control_partial_data",
                 "variation_event_loss", "variation_user_id_error",
                 "variation_partial_data"} : in[f] >= 0 /\ in[f] < 1000

\* control_error_impact = 1 at some error level of the sweep, on the rates
\* in tenths: event_loss/100 + id_error/100 + (error/100)*(partial_data/100) = 1
ZeroSweepDivisor(in) ==
    \E i \in 0..10 :
        100 * (in.control_event_loss + in.control_user_id_error)
            + (2 * i) * in.control_partial_data = 100000

\* C12 as stated: with baseline_conversion > 0 and the six error
\* percentages inside their accepted ranges no ratio has a zero
\* denominator, and calculate_metrics returns a result.
C12_AsStated ==
    (pc # "inputs" /\ Guarded(inputs)) => Rendered

\* C12: with baseline_conversion > 0 and the six error percentages inside
\* their accepted ranges the step-3 denominator is never 0, but a sweep
\* denominator is 0 exactly when control event_loss/100 + id_error/100 +
\* (error_rate/100)*(partial_data/100) = 1 at one of the 11 error rates;
\* calculate_metrics then raises ZeroDivisionError at the sweep's ratio, and
\* returns a result otherwise.
C12_SweepDivisor ==
    (pc # "inputs" /\ Guarded(inputs)) =>
        /\ QSign(control_observed_conversion(Tenths(inputs.baseline_conversion),
                                             Tenths(inputs.control_partial_data))) > 0
        /\ ZeroSweepDivisor(inputs) <=> results = Raised(208)
        /\ ~ZeroSweepDivisor(inputs) <=> Rendered

\* control event_loss and id_error both 50: the call raised at the sweep
C12_Witness ==
    /\ pc = "failed"
    /\ Guarded(inputs)
    /\ inputs.control_event_loss + inputs.control_user_id_error = 1000
    /\ results = Raised(208)

====
